---- MODULE Spec2Model ----
(***************************************************************************)
(* Model of src/main.py, the "Super Universal Downloader Bot": the JSON    *)
(* user store DATA (users, banned, langs, current_links), its snapshot on  *)
(* disk, the Telegram handlers and the fetch-and-deliver sequence of a     *)
(* format choice.                                                          *)
(*                                                                         *)
(* Python strings are sequences of one-character strings, so that strip,   *)
(* split, partition and startswith are computed as the code computes them. *)
(* Every handler is one action, run from its first line to its return      *)
(* (or to the exception that ends it): the specification Spec runs the     *)
(* handlers one after the other, each on the events that its own           *)
(* registration filter accepts. SpecDispatch routes each update through   *)
(* the registration order of the handlers, and SpecThreads runs the format *)
(* choice in steps on the worker threads of the TeleBot.                   *)
(*                                                                         *)
(* The statement under "if not link:" (src/main.py:341-344) has lost its   *)
(* indentation in the source; it is read as the body of that if.           *)
(***************************************************************************)
EXTENDS Integers, Sequences, FiniteSets, TLC

VARIABLES users, banned, langs, current_links, disk, s3_configured,
          tmpdirs, last, out, submitted, threads

vars == <<users, banned, langs, current_links, disk, s3_configured,
          tmpdirs, last, out, submitted, threads>>

(***************************************************************************)
(* Bounds of the model.                                                    *)
(***************************************************************************)
\* the fetched file has the size MAX_TELEGRAM_BYTES, or MaxDelta bytes less or
\* more
MaxDelta == 1
\* names that tempfile.mkdtemp can give to a workspace
MaxDirs == 2

(***************************************************************************)
(* Python string literals and the inbound texts and callback payloads.     *)
(***************************************************************************)
SP == " "
S_http == <<"h","t","t","p",":","/","/">>
S_https == <<"h","t","t","p","s",":","/","/">>
S_uz == <<"u","z">>
S_ru == <<"r","u">>
S_en == <<"e","n">>
S_fr == <<"f","r">>
S_lang_ == <<"l","a","n","g","_">>
S_adm_ == <<"a","d","m","_">>
S_admin == <<"/","a","d","m","i","n">>
S_start == <<"/","s","t","a","r","t">>
S_ban == <<"/","b","a","n">>
S_unban == <<"/","u","n","b","a","n">>
S_broadcast == <<"/","b","r","o","a","d","c","a","s","t">>
S_format_mp4 == <<"f","o","r","m","a","t","_","m","p","4">>
S_format_mp3 == <<"f","o","r","m","a","t","_","m","p","3">>
S_change_lang == <<"c","h","a","n","g","e","_","l","a","n","g">>
S_adm_stats == S_adm_ \o <<"s","t","a","t","s">>
S_adm_users == S_adm_ \o <<"u","s","e","r","s">>
S_adm_broadcast == S_adm_ \o <<"b","r","o","a","d","c","a","s","t">>
S_adm_ban == S_adm_ \o <<"b","a","n">>

\* the value None of Python, where a string is expected
None == <<"<None>">>

Uids == {1, 2}
ADMIN_IDS == {1}
\* str(uid)
str(uid) == IF uid = 1 THEN <<"1">> ELSE <<"2">>
\* int(uid_str) on the keys of DATA["users"]
int(s) == IF s = <<"1">> THEN 1 ELSE 2
\* m.from_user.first_name of each sender (the second has none)
first_name(uid) == IF uid = 1 THEN <<"A">> ELSE None

T_urlA == S_http \o <<"a">>
T_urlB == S_https \o <<"b">>
T_urlB_sp == T_urlB \o <<SP>>
T_sp_urlA == <<SP>> \o T_urlA
T_hi == <<"h","i">>
T_ban2 == S_ban \o <<SP, "2">>
T_unban2 == S_unban \o <<SP, "2">>
T_bc_hi == S_broadcast \o <<SP>> \o T_hi

\* texts of inbound messages: links (one with a blank after it, one with a
\* blank before it) and other texts
LinkTexts == {T_urlA, T_urlB_sp, T_sp_urlA}
OtherTexts == {S_admin, T_hi}
BanTexts == {T_ban2, S_ban}
UnbanTexts == {T_unban2, S_unban}
BroadcastTexts == {T_bc_hi, S_broadcast}
\* the senders of links and of language choices
LinkSenders == {2}
LangSenders == {2}
MessageInputs == (Uids \X OtherTexts) \cup (LinkSenders \X LinkTexts)
\* payloads of inbound callback queries
LangData == {S_lang_ \o S_ru, S_lang_ \o S_fr}
OtherData == {S_format_mp4, S_format_mp3, S_change_lang, S_adm_stats,
              S_adm_users, S_adm_broadcast, S_adm_ban}
CallbackInputs == (Uids \X OtherData) \cup (LangSenders \X LangData)

(***************************************************************************)
(* str methods.                                                            *)
(***************************************************************************)
startswith(s, p) == Len(s) >= Len(p) /\ SubSeq(s, 1, Len(p)) = p

RECURSIVE lstrip(_)
lstrip(s) == IF s # <<>> /\ Head(s) = SP THEN lstrip(Tail(s)) ELSE s

RECURSIVE rstrip(_)
rstrip(s) ==
    IF s # <<>> /\ s[Len(s)] = SP THEN rstrip(SubSeq(s, 1, Len(s) - 1)) ELSE s

\* a strip that forgets the blanks at the end
strip_left_only(s) == lstrip(s)

strip(s) == rstrip(lstrip(s))

\* index of the first c in s, 0 when there is none
find(s, c) ==
    IF \E i \in 1..Len(s) : s[i] = c
    THEN CHOOSE i \in 1..Len(s) : s[i] = c /\ \A j \in 1..(i - 1) : s[j] # c
    ELSE 0

\* s.partition(c)[2], which is also s.split(c, 1)[1] when c occurs in s
after_first(s, c) ==
    IF find(s, c) = 0 THEN <<>> ELSE SubSeq(s, find(s, c) + 1, Len(s))

\* s.split(): the maximal runs of non-blank characters
RECURSIVE split_from(_, _, _)
split_from(s, cur, acc) ==
    IF s = <<>> THEN (IF cur = <<>> THEN acc ELSE Append(acc, cur))
    ELSE IF Head(s) = SP
         THEN split_from(Tail(s), <<>>, IF cur = <<>> THEN acc ELSE Append(acc, cur))
         ELSE split_from(Tail(s), Append(cur, Head(s)), acc)

split(s) == split_from(s, <<>>, <<>>)

\* a test that takes every text for a link
looks_like_url_any(text) == TRUE

looks_like_url(text) == startswith(text, S_http) \/ startswith(text, S_https)

(***************************************************************************)
(* i18n.                                                                   *)
(***************************************************************************)
STRINGS == {"start", "choose_format", "downloading", "no_link", "error",
            "not_admin"} \X {S_uz, S_ru, S_en}

\* the text of an outbound message: a key of STRINGS with its language, or a
\* literal of the code (lang <<>>)
tr(key, lang) ==
    IF <<key, lang>> \in STRINGS THEN [key |-> key, lang |-> lang]
    ELSE IF <<key, S_uz>> \in STRINGS THEN [key |-> key, lang |-> S_uz]
    ELSE [key |-> "...", lang |-> <<>>]

literal(text) == [key |-> text, lang |-> <<>>]

(***************************************************************************)
(* Calls to the collaborators: the chat platform, the media fetch,         *)
(* the two uploads, the workspace.                                         *)
(***************************************************************************)
Call(api, to, text, arg, n) ==
    [api |-> api, to |-> to, key |-> text.key, lang |-> text.lang,
     arg |-> arg, n |-> n, n2 |-> 0, ok |-> TRUE]

Failed(c) == [c EXCEPT !.ok = FALSE]

\* the calls of a handler when its fail-th call raises and the exception ends
\* the handler (0: no call raises)
Attempt(calls, fail) ==
    IF fail = 0 THEN calls
    ELSE SubSeq(calls, 1, fail - 1) \o <<Failed(calls[fail])>>

(***************************************************************************)
(* The store DATA and its snapshot bot_data.json.                          *)
(***************************************************************************)
EmptyData == [users |-> <<>>, banned |-> <<>>, langs |-> <<>>,
              current_links |-> <<>>]

Data == [users |-> users, banned |-> banned, langs |-> langs,
         current_links |-> current_links]

\* dict.get(k, default)
Get(d, k, default) == IF k \in DOMAIN d THEN d[k] ELSE default

\* d[k] = v
Put(d, k, v) == [x \in (DOMAIN d) \cup {k} |-> IF x = k THEN v ELSE d[x]]

UserKeys(us) == {us[i].key : i \in 1..Len(us)}

\* DATA["users"].setdefault(str(uid), {"first_name": ..., "id": uid})
setdefault_user(us, uid) ==
    IF str(uid) \in UserKeys(us) THEN us
    ELSE Append(us, [key |-> str(uid),
                     first_name |-> IF first_name(uid) = None THEN <<>>
                                    ELSE first_name(uid),
                     id |-> uid])

InList(x, l) == \E i \in 1..Len(l) : l[i] = x

SaveOutcomes == {"ok", "failed"}

\* a save_data that does not write the file
save_data_never(d, outcome) == disk

\* save_data(): the file is rewritten with DATA; an exception while writing is
\* logged and leaves a file that is no snapshot of DATA
save_data(d, outcome) ==
    IF outcome = "ok" THEN [state |-> "ok", data |-> d]
    ELSE [state |-> "partial", data |-> EmptyData]

(***************************************************************************)
(* The last handler that ran and the calls it made, in order. last is the  *)
(* event it handled; kind is the result of the fetch for a format choice   *)
(* and, for /ban and /unban, whether the identifier was banned before;     *)
(* save is the outcome of its call of save_data ("" when it made none).    *)
(***************************************************************************)
NoEvent == [h |-> "", uid |-> 0, arg |-> <<>>, kind |-> "", size |-> 0, save |-> ""]
Event(h, uid, arg) == [NoEvent EXCEPT !.h = h, !.uid = uid, !.arg = arg]

\* the worker threads of the TeleBot: it is built with the default
\* threaded=True, num_threads=2, and runs each handler on a thread of its pool
NumThreads == 2
Threads == 1..NumThreads

\* the frame of a worker thread: pc is where its handler stands, the other
\* fields are the locals of callback_all
IdleFrame == [pc |-> "idle", uid |-> 0, data |-> <<>>, lang |-> <<>>,
              link |-> <<>>, fetched |-> <<>>, d |-> 0, res |-> "", size |-> 0]

Init ==
    /\ users = <<>>
    /\ banned = <<>>
    /\ langs = <<>>
    /\ current_links = <<>>
    /\ disk = [state |-> "absent", data |-> EmptyData]
    /\ s3_configured \in BOOLEAN
    /\ tmpdirs = {}
    /\ last = NoEvent
    /\ out = <<>>
    /\ submitted = <<>>
    /\ threads = [t \in Threads |-> IdleFrame]

(***************************************************************************)
(* Handlers.                                                               *)
(***************************************************************************)
\* @bot.message_handler(commands=['start', 'help'])
handle_start(uid, text, sv) ==
    LET us == setdefault_user(users, uid)
        lang == Get(langs, str(uid), S_uz)
        calls == <<Call("send_message", uid, tr("start", lang), <<>>, 0)>>
    IN /\ users' = us
       /\ disk' = save_data([Data EXCEPT !.users = us], sv)
       /\ out' = calls
       /\ last' = [Event("handle_start", uid, text) EXCEPT !.save = sv]
       /\ UNCHANGED <<banned, langs, current_links, s3_configured, tmpdirs,
                      submitted, threads>>

\* history: the raw text of the last link message of each sender that main_text
\* handled while the sender was not banned
IsBlank(s) == \A i \in 1..Len(s) : s[i] = SP
IsLinkText(s) ==
    \E i \in 0..Len(s) :
        /\ IsBlank(SubSeq(s, 1, i))
        /\ \/ (i + 7 <= Len(s) /\ SubSeq(s, i + 1, i + 7) = S_http)
           \/ (i + 8 <= Len(s) /\ SubSeq(s, i + 1, i + 8) = S_https)

\* @bot.callback_query_handler(func=lambda c: c.data and c.data.startswith("lang_"))
callback_lang(uid, data, sv) ==
    LET code == after_first(data, "_")
        ls == Put(langs, str(uid), code)
        calls == <<Call("answer_callback_query", uid, literal("OK"), <<>>, 0),
                   Call("send_message", uid, tr("start", code), <<>>, 0)>>
    IN /\ data # <<>> /\ startswith(data, S_lang_)
       /\ langs' = ls
       /\ disk' = save_data([Data EXCEPT !.langs = ls], sv)
       /\ out' = calls
       /\ last' = [Event("callback_lang", uid, data) EXCEPT !.save = sv]
       /\ UNCHANGED <<users, banned, current_links, s3_configured, tmpdirs,
                      submitted, threads>>

\* @bot.message_handler(func=lambda m: True)
main_text(uid, mtext, sv) ==
    LET text == strip(mtext)
        lang == Get(langs, str(uid), S_uz)
        isBanned == InList(str(uid), banned)
        us == setdefault_user(users, uid)
        ls == Put(current_links, str(uid), text)
        calls ==
            IF isBanned THEN <<>>
            ELSE IF text = S_admin
            THEN IF uid \notin ADMIN_IDS
                 THEN <<Call("send_message", uid, tr("not_admin", lang), <<>>, 0)>>
                 ELSE <<Call("send_message", uid, literal("Admin panel:"), <<>>, 0)>>
            ELSE IF looks_like_url(text)
            THEN <<Call("send_message", uid, tr("choose_format", lang), <<>>, 0)>>
            ELSE <<Call("send_message", uid, tr("no_link", lang), <<>>, 0)>>
        stores == ~isBanned /\ text # S_admin /\ looks_like_url(text)
    IN /\ IF stores
          THEN /\ users' = us
               /\ current_links' = ls
               /\ disk' = save_data([Data EXCEPT !.users = us,
                                                !.current_links = ls], sv)
          ELSE /\ sv = "ok"
               /\ UNCHANGED <<users, current_links, disk>>
       /\ submitted' = IF ~isBanned /\ IsLinkText(mtext)
                       THEN Put(submitted, str(uid), mtext) ELSE submitted
       /\ out' = calls
       /\ last' = [Event("main_text", uid, mtext)
                     EXCEPT !.save = IF stores THEN sv ELSE ""]
       /\ UNCHANGED <<banned, langs, s3_configured, tmpdirs, threads>>

(***************************************************************************)
(* The format choice: callback_all from "format selection" to its return.  *)
(***************************************************************************)
MAX_TELEGRAM_BYTES == 49 * 1024 * 1024

\* sizes of the fetched file
Sizes == {MAX_TELEGRAM_BYTES - MaxDelta, MAX_TELEGRAM_BYTES,
          MAX_TELEGRAM_BYTES + MaxDelta}

DirNames == 1..MaxDirs
S_s3url == S_https \o <<"s","3">>
S_tshurl == S_https \o <<"t","s","h">>

PlatformApis == {"send_message", "edit_message_text", "delete_message",
                 "send_audio", "send_document", "answer_callback_query"}

\* a check that lets a missing link through
no_link_unchecked(link) == FALSE

\* "if not link": None or the empty string
no_link(link) == link = None \/ link = <<>>

\* a delivery that sends the file a second time when the first send raised
try_body_resend(uid, mode, lang, res, size, s3ok, tshok) ==
    LET send == Call(IF mode = "audio" THEN "send_audio" ELSE "send_document",
                     uid, literal("file"), <<>>, size)
    IN IF res = "nofile"
       THEN <<Call("edit_message_text", uid, tr("error", lang), <<>>, 0)>>
       ELSE <<send, send, Call("delete_message", uid, literal(""), <<>>, 0)>>

\* the threshold itself counted as oversize
fits_telegram_strict(size) == size < MAX_TELEGRAM_BYTES

\* "if size <= MAX_TELEGRAM_BYTES"
fits_telegram(size) == size <= MAX_TELEGRAM_BYTES

\* uploads that call the fallback whatever the object storage returned
uploads_fallback_always(s3ok, tshok) ==
    LET s3 == IF s3_configured
              THEN <<[Call("upload_file_to_s3", 0, literal(""), <<>>, 0)
                       EXCEPT !.ok = s3ok]>>
              ELSE <<>>
        tsh == <<[Call("upload_to_transfersh", 0, literal(""), <<>>, 0)
                   EXCEPT !.ok = tshok]>>
    IN [calls |-> s3 \o tsh,
        link |-> IF s3_configured /\ s3ok THEN S_s3url
                 ELSE IF tshok THEN S_tshurl ELSE None]

\* lines 365-375: the uploads of an oversize file, and link_to_send
uploads(s3ok, tshok) ==
    LET s3 == IF s3_configured
              THEN <<[Call("upload_file_to_s3", 0, literal(""), <<>>, 0)
                       EXCEPT !.ok = s3ok]>>
              ELSE <<>>
        link1 == IF s3_configured /\ s3ok THEN S_s3url ELSE None
        tsh == IF no_link(link1)
               THEN <<[Call("upload_to_transfersh", 0, literal(""), <<>>, 0)
                        EXCEPT !.ok = tshok]>>
               ELSE <<>>
        link2 == IF no_link(link1) THEN (IF tshok THEN S_tshurl ELSE None)
                 ELSE link1
    IN [calls |-> s3 \o tsh, link |-> link2]

\* lines 350-380: the calls of the try block after the fetch has returned, when
\* no platform call raises
try_body(uid, mode, lang, res, size, s3ok, tshok) ==
    IF res = "nofile"
    THEN <<Call("edit_message_text", uid, tr("error", lang), <<>>, 0)>>
    ELSE IF fits_telegram(size)
    THEN <<Call(IF mode = "audio" THEN "send_audio" ELSE "send_document",
                uid, literal("file"), <<>>, size),
           Call("delete_message", uid, literal(""), <<>>, 0)>>
    ELSE LET up == uploads(s3ok, tshok)
         IN <<Call("edit_message_text", uid, literal("too big"), <<>>, 0)>>
            \o up.calls
            \o <<IF ~no_link(up.link)
                 THEN Call("send_message", uid, literal("link"), up.link, 0)
                 ELSE Call("send_message", uid, tr("error", lang), <<>>, 0)>>
            \o <<Call("delete_message", uid, literal(""), <<>>, 0)>>

\* the removal at the end of the try block instead of in a finally
rmtree_unless_raised(dirs, d, raised) == IF raised THEN dirs ELSE dirs \ {d}

\* "finally: shutil.rmtree(tmpdir, ignore_errors=True)", whether or not the try
\* block raised
finally_rmtree(dirs, d, raised) == dirs \ {d}

\* lines 345-386, for a pending link: the calls made and the workspaces left.
\* r holds the results of the collaborators: failAt is the position in the try
\* block of the platform call that raises (0: none); editFails, exFails: the
\* first edit_message_text, and the one of the except block, raises
fetch_and_deliver(uid, mode, lang, link, d, r) ==
    LET res == r.res
        failAt == r.failAt
        edit == Call("edit_message_text", uid, tr("downloading", lang), <<>>, 0)
        fetch == [Call("download_with_yt_dlp", d, literal(mode), link, 0)
                    EXCEPT !.ok = (res # "raise")]
        body == IF res = "raise" THEN <<>>
                ELSE try_body(uid, mode, lang, res, r.size, r.s3ok, r.tshok)
        raised == res = "raise" \/ failAt # 0
        done == Attempt(body, failAt)
        handler == IF raised
                   THEN <<[Call("edit_message_text", uid, tr("error", lang),
                                <<>>, 0) EXCEPT !.ok = ~r.exFails]>>
                   ELSE <<>>
    IN IF r.editFails
       THEN [calls |-> <<Failed(edit)>>, dirs |-> tmpdirs]
       ELSE [calls |-> <<edit, Call("mkdtemp", d, literal(""), <<>>, 0), fetch>>
                        \o done \o handler,
             dirs |-> finally_rmtree(tmpdirs \cup {d}, d, raised)]

\* the positions of try_body where a platform call can raise
FailPoints(body) == {0} \cup {i \in 1..Len(body) : body[i].api \in PlatformApis}

\* a format choice that forgets the link it has fetched
pending_cleared_after_choice(links, uid) ==
    [k \in (DOMAIN links) \ {str(uid)} |-> links[k]]

\* lines 339-386 assign nothing to DATA["current_links"]: the pending links
\* after a format choice are those before it
pending_after_choice(links, uid) == links

\* the format choice of a user with a pending link
Fetching(uid, data) ==
    /\ data \in {S_format_mp4, S_format_mp3}
    /\ ~no_link(Get(current_links, str(uid), None))

\* @bot.callback_query_handler(func=lambda c: True)
callback_all(uid, data, sv, r) ==
    LET lang == Get(langs, str(uid), S_uz)
        link == Get(current_links, str(uid), None)
        mode == IF data = S_format_mp3 THEN "audio" ELSE "video"
        isFormat == data \in {S_format_mp4, S_format_mp3}
        fetching == isFormat /\ ~no_link(link)
        code == after_first(data, "_")
        ls == Put(langs, str(uid), code)
        d == CHOOSE x \in DirNames : x \notin tmpdirs
        run == fetch_and_deliver(uid, mode, lang, link, d, r)
        calls ==
            IF startswith(data, S_adm_)
            THEN IF uid \notin ADMIN_IDS
                 THEN <<Call("answer_callback_query", uid, tr("not_admin", lang),
                             <<>>, 0)>>
                 ELSE IF data = S_adm_stats
                 THEN <<[Call("send_message", uid, literal("stats"), <<>>,
                              Len(users)) EXCEPT !.n2 = Len(banned)]>>
                 ELSE IF data = S_adm_users
                 THEN <<Call("send_message", uid, literal("users"), <<>>,
                             Len(users))>>
                 ELSE IF data = S_adm_broadcast
                 THEN <<Call("send_message", uid, literal("broadcast help"),
                             <<>>, 0)>>
                 ELSE IF data = S_adm_ban
                 THEN <<Call("send_message", uid, literal("ban help"), <<>>, 0)>>
                 ELSE <<>>
            ELSE IF data = S_change_lang
            THEN <<Call("answer_callback_query", uid, literal("Tilni tanlang"),
                        <<>>, 0),
                   Call("send_message", uid, literal("Tilni tanlang:"), <<>>, 0)>>
            ELSE IF isFormat
            THEN IF no_link(link)
                 THEN <<Call("answer_callback_query", uid,
                             literal("Avval link yuboring."), <<>>, 0)>>
                 ELSE run.calls
            ELSE IF startswith(data, S_lang_)
            THEN <<Call("answer_callback_query", uid, literal("OK"), <<>>, 0),
                   Call("send_message", uid, tr("start", code), <<>>, 0)>>
            ELSE <<>>
        setsLang == ~startswith(data, S_adm_) /\ data # S_change_lang
                    /\ ~isFormat /\ startswith(data, S_lang_)
    IN /\ IF fetching
          THEN /\ DirNames \ tmpdirs # {}
               /\ tmpdirs' = run.dirs
               /\ last' = [Event("callback_all", uid, data)
                             EXCEPT !.kind = r.res, !.size = r.size]
          ELSE /\ last' = [Event("callback_all", uid, data)
                             EXCEPT !.save = IF setsLang THEN sv ELSE ""]
               /\ UNCHANGED tmpdirs
       /\ IF setsLang
          THEN /\ langs' = ls
               /\ disk' = save_data([Data EXCEPT !.langs = ls], sv)
          ELSE /\ sv = "ok"
               /\ UNCHANGED <<langs, disk>>
       /\ current_links' = IF fetching THEN pending_after_choice(current_links, uid)
                           ELSE current_links
       /\ out' = calls
       /\ UNCHANGED <<users, banned, s3_configured, submitted, threads>>

\* callback_all with any results of the collaborators that it calls: of the
\* fetch, of the uploads it reaches, and of each platform call of a format
\* choice (r, see fetch_and_deliver)
callback_all_any(uid, data) ==
    LET f == Fetching(uid, data)
        mode == IF data = S_format_mp3 THEN "audio" ELSE "video"
    IN \E sv \in IF startswith(data, S_lang_) THEN SaveOutcomes ELSE {"ok"},
          editFails \in IF f THEN BOOLEAN ELSE {FALSE} :
       \E rs \in IF f /\ ~editFails
                 THEN ({"raise", "nofile"} \X {0}) \cup ({"file"} \X Sizes)
                 ELSE {<<"file", 0>>} :
       \E s3ok \in IF f /\ ~editFails /\ rs[1] = "file" /\ ~fits_telegram(rs[2])
                      /\ s3_configured
                   THEN BOOLEAN ELSE {TRUE} :
       \E tshok \in IF f /\ ~editFails /\ rs[1] = "file" /\ ~fits_telegram(rs[2])
                       /\ ~(s3_configured /\ s3ok)
                    THEN BOOLEAN ELSE {TRUE} :
       \E failAt \in IF f /\ ~editFails /\ rs[1] # "raise"
                     THEN FailPoints(try_body(uid, mode, S_uz, rs[1], rs[2],
                                              s3ok, tshok))
                     ELSE {0} :
       \E exFails \in IF f /\ ~editFails /\ (rs[1] = "raise" \/ failAt # 0)
                      THEN BOOLEAN ELSE {FALSE} :
          callback_all(uid, data, sv,
                       [res |-> rs[1], size |-> rs[2], s3ok |-> s3ok,
                        tshok |-> tshok, editFails |-> editFails,
                        failAt |-> failAt, exFails |-> exFails])

(***************************************************************************)
(* The format choice on the worker threads: callback_all in the steps      *)
(* between which another thread can run. Each step ends before a blocking  *)
(* call or at the return of the handler.                                   *)
(***************************************************************************)
\* results of the fetch in the runs on threads
ThreadResults == {<<"raise", 0>>, <<"nofile", 0>>, <<"file", MAX_TELEGRAM_BYTES>>}
ThreadLinkTexts == {T_urlA, T_urlB_sp}

\* the results of the collaborators of a run whose first edit raises
EditRaises == [res |-> "file", size |-> 0, s3ok |-> TRUE, tshok |-> TRUE,
               editFails |-> TRUE, failAt |-> 0, exFails |-> FALSE]

\* lines 310-344: the locals uid, data, lang and link are read from the store
format_begin(t, uid, data) ==
    /\ threads[t].pc = "idle"
    /\ Fetching(uid, data)
    /\ threads' = [threads EXCEPT ![t] =
                      [IdleFrame EXCEPT !.pc = "status", !.uid = uid,
                                        !.data = data,
                                        !.lang = Get(langs, str(uid), S_uz),
                                        !.link = Get(current_links, str(uid), None)]]
    /\ UNCHANGED <<users, banned, langs, current_links, disk, s3_configured,
                   tmpdirs, last, out, submitted>>

\* lines 345-346: the edit of the status message, which ends the handler when
\* it raises, and mkdtemp
format_status(t, editFails) ==
    LET f == threads[t]
        mode == IF f.data = S_format_mp3 THEN "audio" ELSE "video"
        d == CHOOSE x \in DirNames : x \notin tmpdirs
        run == fetch_and_deliver(f.uid, mode, f.lang, f.link, 0, EditRaises)
    IN /\ f.pc = "status"
       /\ IF editFails
          THEN /\ threads' = [threads EXCEPT ![t] = IdleFrame]
               /\ out' = run.calls
               /\ last' = Event("callback_all", f.uid, f.data)
               /\ UNCHANGED tmpdirs
          ELSE /\ DirNames \ tmpdirs # {}
               /\ tmpdirs' = tmpdirs \cup {d}
               /\ threads' = [threads EXCEPT ![t].pc = "fetch", ![t].d = d]
               /\ UNCHANGED <<out, last>>
       /\ UNCHANGED <<users, banned, langs, current_links, disk, s3_configured,
                      submitted>>

\* a fetch that reads the pending link again when it is called
fetch_arg_reread(link, uid) == Get(current_links, str(uid), None)

\* line 349: the fetch is called with the local variable link
fetch_arg(link, uid) == link

\* a handler that, when the fetch has raised, waits instead of going on to the
\* except block
after_fetch_wait(res) == IF res = "raise" THEN "waiting" ELSE "deliver"

\* lines 349-350 and 381: the fetch is called once; when it returns or raises
\* the handler goes on to the delivery or to the except block
after_fetch(res) == "deliver"

\* line 349: the blocking call of the fetch, and its result rs
format_fetch(t, rs) ==
    LET f == threads[t]
    IN /\ f.pc = "fetch"
       /\ threads' = [threads EXCEPT ![t].pc = after_fetch(rs[1]),
                                     ![t].fetched = fetch_arg(f.link, f.uid),
                                     ![t].res = rs[1], ![t].size = rs[2]]
       /\ UNCHANGED <<users, banned, langs, current_links, disk, s3_configured,
                      tmpdirs, last, out, submitted>>

\* lines 350-386: the delivery, the except block and the finally; r holds the
\* results of the calls after the fetch
format_deliver(t, r) ==
    LET f == threads[t]
        mode == IF f.data = S_format_mp3 THEN "audio" ELSE "video"
        run == fetch_and_deliver(f.uid, mode, f.lang, f.fetched, f.d, r)
    IN /\ f.pc = "deliver"
       /\ r.res = f.res /\ r.size = f.size /\ ~r.editFails
       /\ threads' = [threads EXCEPT ![t] = IdleFrame]
       /\ tmpdirs' = run.dirs
       /\ out' = run.calls
       /\ last' = [Event("callback_all", f.uid, f.data)
                     EXCEPT !.kind = f.res, !.size = f.size]
       /\ current_links' = pending_after_choice(current_links, f.uid)
       /\ UNCHANGED <<users, banned, langs, disk, s3_configured, submitted>>

\* format_deliver with any results of the calls that it reaches
format_deliver_any(t) ==
    LET f == threads[t]
        mode == IF f.data = S_format_mp3 THEN "audio" ELSE "video"
        big == f.res = "file" /\ ~fits_telegram(f.size)
    IN \E s3ok \in IF big /\ s3_configured THEN BOOLEAN ELSE {TRUE} :
       \E tshok \in IF big /\ ~(s3_configured /\ s3ok) THEN BOOLEAN ELSE {TRUE} :
       \E failAt \in IF f.res \in {"file", "nofile"}
                     THEN FailPoints(try_body(f.uid, mode, S_uz, f.res, f.size,
                                              s3ok, tshok))
                     ELSE {0} :
       \E exFails \in IF f.res = "raise" \/ failAt # 0 THEN BOOLEAN ELSE {FALSE} :
          format_deliver(t, [res |-> f.res, size |-> f.size, s3ok |-> s3ok,
                             tshok |-> tshok, editFails |-> FALSE,
                             failAt |-> failAt, exFails |-> exFails])

\* the next step of the handler that thread t runs
ThreadStep(t) ==
    \/ \E editFails \in BOOLEAN : format_status(t, editFails)
    \/ \E rs \in ThreadResults : format_fetch(t, rs)
    \/ format_deliver_any(t)

\* a message handler runs on a thread of the pool that is idle
NextThreads ==
    \/ \E t \in Threads, uid \in LinkSenders : format_begin(t, uid, S_format_mp4)
    \/ \E t \in Threads : ThreadStep(t)
    \/ \E in \in LinkSenders \X ThreadLinkTexts :
          /\ \E t \in Threads : threads[t].pc = "idle"
          /\ main_text(in[1], in[2], "ok")

\* every call of a collaborator returns or raises, and a thread that can take
\* a step takes it
SpecThreads ==
    Init /\ [][NextThreads]_vars /\ \A t \in Threads : WF_vars(ThreadStep(t))

(***************************************************************************)
(* Admin commands.                                                         *)
(***************************************************************************)
\* a loop without the try around the send: the first send that raises ends it
RECURSIVE broadcast_loop_no_try(_, _, _, _)
broadcast_loop_no_try(keys, text, failing, acc) ==
    IF keys = <<>> THEN acc
    ELSE LET to == int(Head(keys))
             ok == to \notin failing
             c == [Call("send_message", to, literal("broadcast"), text, 0)
                     EXCEPT !.ok = ok]
         IN IF ok
            THEN broadcast_loop_no_try(Tail(keys), text, failing,
                                       [calls |-> Append(acc.calls, c),
                                        cnt |-> acc.cnt + 1])
            ELSE [calls |-> Append(acc.calls, c), cnt |-> acc.cnt]

\* lines 407-413: the sends of the loop over list(DATA["users"].keys()) and the
\* count of those that did not raise; failing: the recipients whose send raises
RECURSIVE broadcast_loop(_, _, _, _)
broadcast_loop(keys, text, failing, acc) ==
    IF keys = <<>> THEN acc
    ELSE LET to == int(Head(keys))
             ok == to \notin failing
             c == [Call("send_message", to, literal("broadcast"), text, 0)
                     EXCEPT !.ok = ok]
         IN broadcast_loop(Tail(keys), text, failing,
                           [calls |-> Append(acc.calls, c),
                            cnt |-> IF ok THEN acc.cnt + 1 ELSE acc.cnt])

\* @bot.message_handler(commands=['broadcast'])
cmd_broadcast(uid, mtext, failing) ==
    LET lang == Get(langs, str(uid), S_uz)
        text == strip(after_first(mtext, SP))
        keys == [i \in 1..Len(users) |-> users[i].key]
        loop == broadcast_loop(keys, text, failing, [calls |-> <<>>, cnt |-> 0])
        sends == uid \in ADMIN_IDS /\ text # <<>>
        calls ==
            IF uid \notin ADMIN_IDS
            THEN <<Call("send_message", uid, tr("not_admin", lang), <<>>, 0)>>
            ELSE IF text = <<>>
            THEN <<Call("send_message", uid, literal("Usage: /broadcast"), <<>>, 0)>>
            ELSE loop.calls
                 \o <<Call("send_message", uid, literal("Sent to"), <<>>, loop.cnt)>>
    IN /\ failing \subseteq (IF sends THEN {users[i].id : i \in 1..Len(users)} ELSE {})
       /\ out' = calls
       /\ last' = Event("cmd_broadcast", uid, mtext)
       /\ UNCHANGED <<users, banned, langs, current_links, disk, s3_configured,
                      tmpdirs, submitted, threads>>

\* an append without the membership test
ban_add_always(b, id) == Append(b, id)

\* lines 424-425: "if uid not in banned: append(uid)"
ban_add(b, id) == IF InList(id, b) THEN b ELSE Append(b, id)

\* list.remove(x): the first x is removed
remove(l, x) ==
    LET i == CHOOSE k \in 1..Len(l) : l[k] = x /\ \A j \in 1..(k - 1) : l[j] # x
    IN SubSeq(l, 1, i - 1) \o SubSeq(l, i + 1, Len(l))

\* lines 437-438: "if uid in banned: remove(uid)"
ban_remove(b, id) == IF InList(id, b) THEN remove(b, id) ELSE b

\* @bot.message_handler(commands=['ban'])
cmd_ban(uid, mtext, sv) ==
    LET lang == Get(langs, str(uid), S_uz)
        parts == split(mtext)
        id == strip(parts[2])
        acts == uid \in ADMIN_IDS /\ Len(parts) >= 2
        b == ban_add(banned, id)
        calls ==
            IF uid \notin ADMIN_IDS
            THEN <<Call("send_message", uid, tr("not_admin", lang), <<>>, 0)>>
            ELSE IF Len(parts) < 2
            THEN <<Call("send_message", uid, literal("Usage: /ban"), <<>>, 0)>>
            ELSE <<Call("send_message", uid, literal("banned"), id, 0)>>
    IN /\ IF acts /\ ~InList(id, banned)
          THEN /\ banned' = b
               /\ disk' = save_data([Data EXCEPT !.banned = b], sv)
          ELSE /\ sv = "ok"
               /\ banned' = IF acts THEN b ELSE banned
               /\ UNCHANGED disk
       /\ out' = calls
       /\ last' = [Event("cmd_ban", uid, mtext)
                     EXCEPT !.kind = IF ~acts THEN ""
                                     ELSE IF InList(id, banned) THEN "member"
                                     ELSE "absent",
                            !.save = IF acts /\ ~InList(id, banned) THEN sv
                                     ELSE ""]
       /\ UNCHANGED <<users, langs, current_links, s3_configured, tmpdirs,
                      submitted, threads>>

\* @bot.message_handler(commands=['unban'])
cmd_unban(uid, mtext, sv) ==
    LET lang == Get(langs, str(uid), S_uz)
        parts == split(mtext)
        id == strip(parts[2])
        acts == uid \in ADMIN_IDS /\ Len(parts) >= 2
        b == ban_remove(banned, id)
        calls ==
            IF uid \notin ADMIN_IDS
            THEN <<Call("send_message", uid, tr("not_admin", lang), <<>>, 0)>>
            ELSE IF Len(parts) < 2
            THEN <<Call("send_message", uid, literal("Usage: /unban"), <<>>, 0)>>
            ELSE <<Call("send_message", uid, literal("unbanned"), id, 0)>>
    IN /\ IF acts /\ InList(id, banned)
          THEN /\ banned' = b
               /\ disk' = save_data([Data EXCEPT !.banned = b], sv)
          ELSE /\ sv = "ok"
               /\ banned' = IF acts THEN b ELSE banned
               /\ UNCHANGED disk
       /\ out' = calls
       /\ last' = [Event("cmd_unban", uid, mtext)
                     EXCEPT !.kind = IF ~acts THEN ""
                                     ELSE IF InList(id, banned) THEN "member"
                                     ELSE "absent",
                            !.save = IF acts /\ InList(id, banned) THEN sv
                                     ELSE ""]
       /\ UNCHANGED <<users, langs, current_links, s3_configured, tmpdirs,
                      submitted, threads>>

Next ==
    \/ \E uid \in Uids, sv \in SaveOutcomes : handle_start(uid, S_start, sv)
    \/ \E in \in LangSenders \X LangData, sv \in SaveOutcomes :
          callback_lang(in[1], in[2], sv)
    \/ \E in \in MessageInputs, sv \in SaveOutcomes : main_text(in[1], in[2], sv)
    \/ \E in \in CallbackInputs : callback_all_any(in[1], in[2])
    \/ \E uid \in Uids, text \in BroadcastTexts, failing \in SUBSET Uids :
          cmd_broadcast(uid, text, failing)
    \/ \E uid \in Uids, text \in BanTexts, sv \in SaveOutcomes :
          cmd_ban(uid, text, sv)
    \/ \E uid \in Uids, text \in UnbanTexts, sv \in SaveOutcomes :
          cmd_unban(uid, text, sv)

Spec == Init /\ [][Next]_vars

(***************************************************************************)
(* The dispatch of TeleBot: an update runs the first registered handler    *)
(* whose filter accepts it. The message handlers are registered in the     *)
(* order handle_start, main_text, cmd_broadcast, cmd_ban, cmd_unban; the   *)
(* callback handlers in the order callback_lang, callback_all.             *)
(***************************************************************************)
S_help == <<"/","h","e","l","p">>

\* telebot.util.extract_command: the first word without its "/" and without
\* what follows an "@", None when the text does not start with "/"
extract_command(text) ==
    IF ~startswith(text, <<"/">>) THEN None
    ELSE LET word == split(text)[1]
             at == find(word, "@")
             name == IF at = 0 THEN word ELSE SubSeq(word, 1, at - 1)
         IN Tail(name)

\* the filters of the decorators, in the order of registration
message_handlers ==
    <<[name |-> "handle_start", commands |-> {Tail(S_start), Tail(S_help)}],
      [name |-> "main_text", commands |-> {}],
      [name |-> "cmd_broadcast", commands |-> {Tail(S_broadcast)}],
      [name |-> "cmd_ban", commands |-> {Tail(S_ban)}],
      [name |-> "cmd_unban", commands |-> {Tail(S_unban)}]>>

accepts(handler, text) ==
    IF handler.name = "main_text" THEN TRUE
    ELSE extract_command(text) \in handler.commands

\* the name of the first handler that accepts the message
first_handler(handlers, text) ==
    LET i == CHOOSE k \in 1..Len(handlers) :
                 /\ accepts(handlers[k], text)
                 /\ \A j \in 1..(k - 1) : ~accepts(handlers[j], text)
    IN handlers[i].name

dispatch_message(uid, text, sv, failing) ==
    LET h == first_handler(message_handlers, text)
    IN CASE h = "handle_start" -> failing = {} /\ handle_start(uid, text, sv)
         [] h = "main_text" -> failing = {} /\ main_text(uid, text, sv)
         [] h = "cmd_broadcast" -> sv = "ok" /\ cmd_broadcast(uid, text, failing)
         [] h = "cmd_ban" -> failing = {} /\ cmd_ban(uid, text, sv)
         [] h = "cmd_unban" -> failing = {} /\ cmd_unban(uid, text, sv)

dispatch_callback(uid, data) ==
    IF data # <<>> /\ startswith(data, S_lang_)
    THEN \E sv \in SaveOutcomes : callback_lang(uid, data, sv)
    ELSE callback_all_any(uid, data)

DispatchTexts == {S_start} \cup BanTexts \cup UnbanTexts \cup BroadcastTexts
DispatchInputs == MessageInputs \cup (Uids \X DispatchTexts)

NextDispatch ==
    \/ \E in \in DispatchInputs :
          \E sv \in SaveOutcomes,
             failing \in IF first_handler(message_handlers, in[2]) = "cmd_broadcast"
                         THEN SUBSET Uids ELSE {{}} :
             dispatch_message(in[1], in[2], sv, failing)
    \/ \E in \in CallbackInputs : dispatch_callback(in[1], in[2])

SpecDispatch == Init /\ [][NextDispatch]_vars

(***************************************************************************)
(* The claims.                                                             *)
(***************************************************************************)
FormatData == {S_format_mp4, S_format_mp3}
StoreUnchanged ==
    /\ users' = users /\ banned' = banned /\ langs' = langs
    /\ current_links' = current_links /\ disk' = disk
OutApis == {out[i].api : i \in 1..Len(out)}
StartsHttp(u) ==
    \/ (Len(u) >= 7 /\ SubSeq(u, 1, 7) = S_http)
    \/ (Len(u) >= 8 /\ SubSeq(u, 1, 8) = S_https)
\* t is s without the blanks around it
IsTrimOf(t, s) ==
    /\ \E i \in 0..Len(s) :
          /\ i + Len(t) <= Len(s)
          /\ IsBlank(SubSeq(s, 1, i))
          /\ SubSeq(s, i + 1, i + Len(t)) = t
          /\ IsBlank(SubSeq(s, i + Len(t) + 1, Len(s)))
    /\ t # <<>> => t[1] # SP /\ t[Len(t)] # SP
\* the link message u that the claim is about: the last one of the sender
SubmittedBy(uid) == Get(submitted, str(uid), <<>>)
FetchCalls == {i \in 1..Len(out) : out[i].api = "download_with_yt_dlp"}

\* C1 as stated: after main_text handles a text u that starts with http:// or
\* https://, from a sender who is not banned, the pending link of the sender is u,
\* and the fetch of the next format choice of that sender is called with u.
C1_Original ==
    /\ (last.h = "main_text" /\ StartsHttp(last.arg)
        /\ ~InList(str(last.uid), banned))
       => Get(current_links, str(last.uid), None) = last.arg
    /\ (last.h = "callback_all" /\ StartsHttp(SubmittedBy(last.uid)))
       => \A i \in FetchCalls : out[i].arg = SubmittedBy(last.uid)

\* C1 amended: the pending link is u without the blanks around it, and the next
\* format choice of the sender, unless its first edit of the status message
\* raises, calls the fetch once, with that link.
C1_PendingLinkIsStrippedText ==
    /\ (last.h = "main_text" /\ StartsHttp(last.arg)
        /\ ~InList(str(last.uid), banned))
       => IsTrimOf(Get(current_links, str(last.uid), None), last.arg)
    /\ (last.h = "callback_all" /\ last.arg \in FormatData
        /\ StartsHttp(SubmittedBy(last.uid)))
       => /\ \A i \in FetchCalls : IsTrimOf(out[i].arg, SubmittedBy(last.uid))
          /\ out[1].ok => Cardinality(FetchCalls) = 1

\* a format choice fetches the link that was sent with a blank after it
C1_Witness ==
    /\ last.h = "callback_all"
    /\ SubmittedBy(last.uid) = T_urlB_sp
    /\ \E i \in FetchCalls : out[i].arg = T_urlB

\* C2: a format choice of a user without pending link answers "send a link
\* first", calls no fetch, send or upload collaborator, and changes nothing in
\* the store.
C2_NoLinkNoFetch ==
    [][(last'.h = "callback_all" /\ last'.arg \in FormatData
        /\ str(last'.uid) \notin DOMAIN current_links)
       => /\ out' = <<Call("answer_callback_query", last'.uid,
                           literal("Avval link yuboring."), <<>>, 0)>>
          /\ StoreUnchanged
          /\ tmpdirs' = tmpdirs]_vars

C2_Witness ==
    /\ last.h = "callback_all" /\ last.arg \in FormatData
    /\ str(last.uid) \notin DOMAIN current_links
    /\ Len(out) = 1

InlineApis == {"send_audio", "send_document"}
UploadApis == {"upload_file_to_s3", "upload_to_transfersh"}

\* C3: for a fetched file of size S: if S <= MAX_TELEGRAM_BYTES the inline send
\* is called (once) and no upload is, also when the send raises; if
\* S > MAX_TELEGRAM_BYTES no inline send is called.
C3_DeliveryBySize ==
    (last.h = "callback_all" /\ last.kind = "file" /\ last.size # 0)
    => IF last.size <= 49 * 1024 * 1024
       THEN /\ Cardinality({i \in 1..Len(out) : out[i].api \in InlineApis}) = 1
            /\ OutApis \cap UploadApis = {}
       ELSE OutApis \cap InlineApis = {}

\* a file of exactly the threshold whose inline send raises
C3_Witness ==
    /\ last.h = "callback_all" /\ last.kind = "file"
    /\ last.size = 49 * 1024 * 1024
    /\ \E i \in 1..Len(out) : out[i].api \in InlineApis /\ ~out[i].ok

\* C4: an inbound event from a banned identifier produces no outbound message
\* and no collaborator call.
C4_BannedSilent ==
    [][(last'.h # "" /\ InList(str(last'.uid), banned)) => out' = <<>>]_vars

SupportedLocales == {S_uz, S_ru, S_en}

\* C5: a language callback whose code is none of uz, ru, en leaves the stored
\* language of the user as it was.
C5_UnsupportedLangRejected ==
    [][(last'.h \in {"callback_lang", "callback_all"}
        /\ startswith(last'.arg, S_lang_)
        /\ SubSeq(last'.arg, 6, Len(last'.arg)) \notin SupportedLocales)
       => langs' = langs]_vars

NoDuplicates(l) == \A i, j \in 1..Len(l) : l[i] = l[j] => i = j

\* C6: cmd_ban of an identifier that is banned already leaves the banned list as
\* it is, without a duplicate; cmd_unban of an identifier that is not banned
\* leaves the banned list and the rest of the store as they are.
C6_BanUnbanIdempotent ==
    [][/\ (last'.h = "cmd_ban" /\ last'.kind = "member")
          => banned' = banned /\ StoreUnchanged
       /\ (last'.h = "cmd_unban" /\ last'.kind = "absent")
          => banned' = banned /\ StoreUnchanged
       /\ NoDuplicates(banned')]_vars

\* /ban 2 by the admin when 2 is banned already
C6_Witness ==
    /\ last.h = "cmd_ban" /\ last.kind = "member" /\ last.uid \in ADMIN_IDS
    /\ banned = <<(<<"2">>)>>

\* C7: cmd_broadcast of an admin with a text sends it once to every registered
\* identifier, whatever sends raised before, and reports the number of sends
\* that did not raise.
C7_BroadcastCount ==
    (last.h = "cmd_broadcast" /\ last.uid \in ADMIN_IDS /\ last.arg = T_bc_hi)
    => LET n == Len(out) - 1
       IN /\ n = Len(users)
          /\ \A i \in 1..n : /\ out[i].api = "send_message"
                             /\ out[i].to = users[i].id
                             /\ out[i].arg = T_hi
          /\ out[n + 1].to = last.uid
          /\ out[n + 1].n = Cardinality({i \in 1..n : out[i].ok})

\* a broadcast whose first send raises and whose second does not
C7_Witness ==
    /\ last.h = "cmd_broadcast" /\ last.uid \in ADMIN_IDS /\ last.arg = T_bc_hi
    /\ Len(out) = 3 /\ ~out[1].ok /\ out[2].ok /\ out[3].n = 1

\* C8: no workspace of a format choice is left when its handling has ended,
\* whatever call raised.
C8_WorkspaceRemoved == tmpdirs = {}

\* a format choice that made a workspace, and whose send and the edit of the
\* except block raised
C8_Witness ==
    /\ last.h = "callback_all"
    /\ "mkdtemp" \in OutApis
    /\ Len(out) >= 2 /\ ~out[Len(out)].ok /\ ~out[Len(out) - 1].ok
    /\ out[Len(out)].api = "edit_message_text"

AdminTexts == {S_admin} \cup BanTexts \cup UnbanTexts \cup BroadcastTexts

\* C9: an admin action of an identifier that is no admin gets the "not admin"
\* notice and nothing else: no other message, no change of the store.
C9_NonAdminRejected ==
    [][(last'.h # "" /\ last'.uid \notin ADMIN_IDS
        /\ (last'.arg \in AdminTexts \/ startswith(last'.arg, S_adm_)))
       => /\ Len(out') = 1
          /\ out'[1].key = "not_admin"
          /\ out'[1].to = last'.uid
          /\ StoreUnchanged]_vars

\* C10: every banned identifier and every key of the language map is a key of
\* the user map.
C10_BannedAndLangsAreUsers ==
    /\ \A i \in 1..Len(banned) : banned[i] \in UserKeys(users)
    /\ DOMAIN langs \subseteq UserKeys(users)

\* C11 as stated: when a handler has finished and no save_data of it failed, the
\* snapshot on disk equals the store in memory (a file that does not exist yet
\* is loaded as the empty store); and a handler that changes the store calls
\* save_data.
C11_Original ==
    [][/\ (last'.h # "" /\ last'.save # "failed")
          => (disk'.state # "partial" /\ disk'.data = Data')
       /\ (Data' # Data) => last'.save # ""]_vars

\* C11 amended: when the most recent save_data, of this handler or of an
\* earlier one, did not fail, the snapshot equals the store; a save_data that
\* succeeds writes the store as it is; a handler that changes the store calls
\* save_data.
C11_SnapshotFollowsStore ==
    [][/\ (disk'.state # "partial") => disk'.data = Data'
       /\ (last'.save = "ok") => disk' = [state |-> "ok", data |-> Data']
       /\ (Data' # Data) => last'.save # ""]_vars

\* a successful save of a store with a user, a ban, a language and a link
C11_Witness ==
    /\ last.save = "ok" /\ disk.state = "ok" /\ disk.data = Data
    /\ users # <<>> /\ banned # <<>>
    /\ DOMAIN langs # {} /\ DOMAIN current_links # {}

Busy(t) == threads[t].pc # "idle"
HasPendingLink(uid) == ~no_link(Get(current_links, str(uid), None))

\* C12: the handling of every format choice ends, whatever its calls returned
\* or raised; and whenever a thread of the pool is free, whatever deliveries
\* completed or failed before, a link of the user is accepted and a format
\* choice of a user with a pending link starts a fetch sequence.
C12_NoTerminalState ==
    /\ \A t \in Threads : Busy(t) ~> ~Busy(t)
    /\ [](\A uid \in LinkSenders :
            (\E t \in Threads : ~Busy(t))
            => /\ ENABLED main_text(uid, T_urlA, "ok")
               /\ HasPendingLink(uid)
                  => ENABLED (\E t \in Threads : format_begin(t, uid, S_format_mp4)))

\* a format choice in its fetch after a format choice whose fetch raised
C12_Witness ==
    /\ last.h = "callback_all" /\ last.kind = "raise"
    /\ \E t \in Threads : threads[t].pc = "fetch"

\* C13: the message "/ban 2" ("/unban 2", "/broadcast hi") of an admin runs
\* cmd_ban (cmd_unban, cmd_broadcast): afterwards 2 is banned (is not banned;
\* every registered user was sent "hi"), and the snapshot holds the banned list
\* unless its save failed.
C13_AdminCommandsDispatched ==
    [][(last'.uid \in ADMIN_IDS /\ last'.h # "")
       => /\ (last'.arg = T_ban2)
             => /\ last'.h = "cmd_ban"
                /\ InList(<<"2">>, banned')
                /\ (last'.save # "failed") => disk'.data.banned = banned'
          /\ (last'.arg = T_unban2)
             => /\ last'.h = "cmd_unban"
                /\ ~InList(<<"2">>, banned')
                /\ (last'.save # "failed") => disk'.data.banned = banned'
          /\ (last'.arg = T_bc_hi)
             => /\ last'.h = "cmd_broadcast"
                /\ \A i \in 1..Len(users) :
                      \E j \in 1..Len(out') : /\ out'[j].to = users[i].id
                                              /\ out'[j].arg = T_hi]_vars

CallsOf(api) == {i \in 1..Len(out) : out[i].api = api}
Oversize ==
    /\ last.h = "callback_all" /\ last.kind = "file"
    /\ last.size > 49 * 1024 * 1024
S3GaveUrl == \E i \in CallsOf("upload_file_to_s3") : out[i].ok
FallbackRule ==
    /\ (CallsOf("upload_to_transfersh") # {}) <=> (~s3_configured \/ ~S3GaveUrl)
    /\ S3GaveUrl
       => /\ CallsOf("upload_to_transfersh") = {}
          /\ \E i \in 1..Len(out) : out[i].key = "link"
          /\ \A i \in 1..Len(out) : out[i].key = "link" => out[i].arg = S_s3url

C15_NoRetries ==
    (last.h = "callback_all" /\ last.arg \in FormatData)
    => /\ Cardinality(CallsOf("download_with_yt_dlp")) <= 1
       /\ Cardinality(CallsOf("send_audio") \cup CallsOf("send_document")) <= 1
       /\ Cardinality(CallsOf("upload_file_to_s3")) <= 1
       /\ Cardinality(CallsOf("upload_to_transfersh")) <= 1

\* a format choice whose two uploads both failed
C15_Witness ==
    /\ last.h = "callback_all" /\ last.arg \in FormatData
    /\ \E i \in CallsOf("upload_file_to_s3") : ~out[i].ok
    /\ \E i \in CallsOf("upload_to_transfersh") : ~out[i].ok

\* C16: a pending link stays in the store and is never emptied; it changes only
\* when main_text handles a link message of the same user; and a format choice
\* that calls the fetch calls it with the link that is, and stays, pending, so
\* that the next format choice fetches the same link.
C16_PendingLinkKept ==
    [][/\ \A k \in DOMAIN current_links :
             /\ k \in DOMAIN current_links'
             /\ current_links'[k] # <<>>
             /\ (current_links'[k] # current_links[k])
                => /\ last'.h = "main_text" /\ str(last'.uid) = k
                   /\ IsLinkText(last'.arg)
       /\ (last'.h = "callback_all" /\ last'.arg \in FormatData)
          => \A i \in 1..Len(out') :
                out'[i].api = "download_with_yt_dlp"
                => /\ str(last'.uid) \in DOMAIN current_links'
                   /\ out'[i].arg = current_links'[str(last'.uid)]]_vars

\* a completed inline delivery, after which the link is still pending
C16_Witness ==
    /\ last.h = "callback_all" /\ last.kind = "file"
    /\ \E i \in 1..Len(out) : out[i].api \in InlineApis /\ out[i].ok
    /\ out[Len(out)].api = "delete_message" /\ out[Len(out)].ok
    /\ \E i \in CallsOf("download_with_yt_dlp") :
          out[i].arg = Get(current_links, str(last.uid), None)

OnePrompt(o, uid) ==
    /\ Len(o) = 1
    /\ o[1].api = "send_message" /\ o[1].key = "no_link" /\ o[1].to = uid

\* C17 as stated: a text that main_text handles, from a sender who is not
\* banned, that is not "/admin" and does not start with http:// or https://,
\* gets the one prompt "send a full link" and leaves the store as it was.
C17_Original ==
    [][(last'.h = "main_text" /\ ~InList(str(last'.uid), banned)
        /\ last'.arg # S_admin /\ ~StartsHttp(last'.arg))
       => OnePrompt(out', last'.uid) /\ StoreUnchanged]_vars

\* C17 amended: the same for a text that, without the blanks around it, is not
\* "/admin" and does not start with http:// or https://.
C17_NonLinkPrompted ==
    [][(last'.h = "main_text" /\ ~InList(str(last'.uid), banned)
        /\ ~IsTrimOf(S_admin, last'.arg) /\ ~IsLinkText(last'.arg))
       => OnePrompt(out', last'.uid) /\ StoreUnchanged]_vars

\* the text "hi" of a user with a pending link
C17_Witness ==
    /\ last.h = "main_text" /\ last.arg = T_hi
    /\ str(last.uid) \in DOMAIN current_links
    /\ OnePrompt(out, last.uid)

\* C18: a format choice in flight keeps the link that was pending when the
\* format was chosen: its frame holds that link until it ends, whatever links
\* the user submits meanwhile, and its fetch is called with it; a link
\* submitted meanwhile only replaces the pending link, which the next format
\* choice reads.
C18_InFlightKeepsLink ==
    [][\A t \in Threads :
          /\ (threads[t].pc = "idle" /\ threads'[t].pc # "idle")
             => threads'[t].link = current_links[str(threads'[t].uid)]
          /\ (threads[t].pc # "idle" /\ threads'[t].pc # "idle")
             => threads'[t].link = threads[t].link
          /\ (threads[t].pc = "fetch" /\ threads'[t].pc # "fetch")
             => threads'[t].fetched = threads[t].link
          /\ (threads[t].pc = "deliver" /\ threads'[t].pc = "idle")
             => \A i \in 1..Len(out') :
                   out'[i].api = "download_with_yt_dlp"
                   => out'[i].arg = threads[t].link]_vars

\* a fetch that has returned a file for the first link after the user has
\* submitted a second link
C18_Witness ==
    \E t \in Threads :
        /\ threads[t].pc = "deliver" /\ threads[t].res = "file"
        /\ threads[t].link = T_urlA /\ threads[t].fetched = T_urlA
        /\ current_links[str(threads[t].uid)] = T_urlB

\* C19: the handlers run one at a time: when a handler starts (main_text, which
\* leaves the threads as they are, or a format choice, which takes a free
\* thread) no other handler is in progress, so that no handler runs between the
\* reads and the writes of another.
C19_OneHandlerAtATime ==
    [][(\/ threads' = threads
        \/ \E t \in Threads : ~Busy(t) /\ threads'[t].pc # "idle")
       => \A t \in Threads : ~Busy(t)]_vars

\* the outputs that the user sees: the calls that did not raise
FilesSent == {i \in 1..Len(out) : out[i].api \in InlineApis /\ out[i].ok}
UrlsSent == {i \in 1..Len(out) : out[i].key = "link" /\ out[i].ok}
ErrorNotices == {i \in 1..Len(out) : out[i].key = "error" /\ out[i].ok}
\* the calls that carry an outcome to the user
OutcomeCalls ==
    {i \in 1..Len(out) : out[i].api \in InlineApis \/ out[i].key \in {"link", "error"}}

\* C20: a format choice with a pending link, whose first edit of the status
\* message did not raise, ends with one outcome that the user sees, among the
\* file, a message with a URL and an error notice: never more than one, and one
\* when no call that carries an outcome raised; a file or URL is never
\* accompanied by an error notice; and when both uploads have failed the outcome
\* is the error notice of the upload.
C20_OneOutcome ==
    (last.h = "callback_all" /\ last.arg \in FormatData
     /\ "mkdtemp" \in OutApis)
    => /\ Cardinality(FilesSent \cup UrlsSent \cup ErrorNotices) <= 1
       /\ (\A i \in OutcomeCalls : out[i].ok)
          => Cardinality(FilesSent \cup UrlsSent \cup ErrorNotices) = 1
       /\ (FilesSent \cup UrlsSent # {}) => ErrorNotices = {}
       /\ (/\ CallsOf("upload_to_transfersh") # {}
           /\ \A i \in CallsOf("upload_file_to_s3") \cup
                         CallsOf("upload_to_transfersh") : ~out[i].ok)
          => \E i \in 1..Len(out) : /\ out[i].api = "send_message"
                                     /\ out[i].key = "error"
====
